---- MODULE Spec2Model ----
(***************************************************************************)
(* Residue interaction graph of a PDB structure: polmst.py and models.py.  *)
(*                                                                         *)
(* Lengths are integers in quarter-angstroms (4.5 A = 18, 4.0 A = 16), so  *)
(* every distance comparison of the code is decided exactly on squares.    *)
(* Affinities and weights are fixed-point numbers in units of 1/60         *)
(* (1.0 = 60): 60 / bond_count is exact for the bond counts 1, 2 and 3.    *)
(* math.inf is the value Inf, compared and added through Lt and Plus.      *)
(* A Python dict is a function plus, where the code iterates it, the       *)
(* sequence of its keys in insertion order.                                *)
(***************************************************************************)
EXTENDS Integers, Sequences, FiniteSets, TLC

VARIABLES
    pc,              \* position in process_pdb_file / which call was made
    file,            \* the lines of the file at file_path
    raw_lines,       \* process_pdb_file: raw_lines
    mers,            \* process_pdb_file: mers (Mer objects in dict order)
    interactions,    \* process_pdb_file: interactions
    adjacency_map,   \* process_pdb_file: adjacency_map
    best_source_mer, \* process_pdb_file: best_source_mer
    result,          \* what the last call returned or raised
    page             \* the FileUploadPage: its buttons, selected file and workers

vars == <<pc, file, raw_lines, mers, interactions, adjacency_map,
          best_source_mer, result, page>>

----------------------------------------------------------------------------
(* Bounds of the model *)

MaxRes == 4          \* residues in a drawn file
MaxAtoms == 3        \* atom lines of the largest residue in a drawn file
MaxNodes == 3        \* nodes of a drawn adjacency map
MaxCount == 3        \* bond count behind an edge of a drawn adjacency map
MaxCalls == 3        \* add_bond calls, or generate_enhanced_pdb calls, of a direct caller
MaxLines == 3        \* raw lines handed to parse_atoms
MaxKeys == 2         \* keys of a drawn distance map, residues of the file it annotates

Names == <<"A", "B", "C", "D", "E">>
Positions == {0, 12, 24, 36, 54}

----------------------------------------------------------------------------
(* Python values *)

None == "None"
NoneObject == [kind |-> "None"]
Inf == -1
EmptyDict == [k \in {} |-> 0]

IsInf(a) == a = Inf
Lt(a, b) == (~IsInf(a)) /\ (IsInf(b) \/ a < b)
Plus(a, b) == IF IsInf(a) \/ IsInf(b) THEN Inf ELSE a + b

ISqrt(n) == CHOOSE r \in 0..n : r * r <= n /\ (r + 1) * (r + 1) > n

Range(s) == {s[i] : i \in 1..Len(s)}

RECURSIVE SeqOfSet(_)
SeqOfSet(S) == IF S = {} THEN <<>>
               ELSE LET x == CHOOSE y \in S : TRUE IN <<x>> \o SeqOfSet(S \ {x})

RECURSIVE SumSeq(_)
SumSeq(s) == IF s = <<>> THEN 0 ELSE Head(s) + SumSeq(Tail(s))

----------------------------------------------------------------------------
(* models.py *)

Location(x, y, z) == [x |-> x, y |-> y, z |-> z]

\* The square of Location.distance_to
DistSq(a, b) == (a.x - b.x) * (a.x - b.x) + (a.y - b.y) * (a.y - b.y)
                + (a.z - b.z) * (a.z - b.z)

Atom(atom_id, location, temp_factor, mer) ==
    [kind |-> "Atom", atom_id |-> atom_id, location |-> location, temp_factor |-> temp_factor,
     mer |-> mer]

\* Mer.center_of_mass is kept in units of 1/ComScale of a length unit, so the
\* mean of up to four atom coordinates is exact
ComScale == 12

\* obj tells Mer objects of one name apart (the identity of the object)
Mer(name) == [name |-> name, obj |-> 0, atoms |-> <<>>, bond_count |-> EmptyDict,
              center_of_mass |-> Location(0, 0, 0)]

\* A reference to a Mer object, as Atom.mer holds it
MerRef(mer) == [name |-> mer.name, obj |-> mer.obj]

\* A dict key: a Mer object hashes as its name and equals only another Mer
\* of that name; a str equals only the same str.
MerKey(name) == [kind |-> "Mer", name |-> name]
StrKey(name) == [kind |-> "str", name |-> name]

\* Mer.add_atom without line 38
add_atom_keeping_owner(mer, atom) == [mer EXCEPT !.atoms = Append(@, atom)]
add_atom(mer, atom) ==
    [mer EXCEPT !.atoms = Append(@, [atom EXCEPT !.mer = MerRef(mer)])]

calc_com(mer) ==
    LET count == Len(mer.atoms)
        x == SumSeq([k \in 1..count |-> mer.atoms[k].location.x])
        y == SumSeq([k \in 1..count |-> mer.atoms[k].location.y])
        z == SumSeq([k \in 1..count |-> mer.atoms[k].location.z])
    IN [mer EXCEPT !.center_of_mass =
          IF count = 0 THEN Location(0, 0, 0)
          ELSE Location((ComScale * x) \div count, (ComScale * y) \div count,
                        (ComScale * z) \div count)]

add_bond(mer, other) ==
    [mer EXCEPT !.bond_count =
        IF other \in DOMAIN @ THEN [@ EXCEPT ![other] = @ + 1]
        ELSE @ @@ (other :> 1)]

get_bond_count_with(mer, other) ==
    IF other \in DOMAIN mer.bond_count THEN mer.bond_count[other] ELSE 0

IsBondedThreshold == 16

\* Mer.is_bonded_to, its test: some atom pair at distance <= threshold
is_bonded_to(mer, other) ==
    \E i \in 1..Len(mer.atoms), j \in 1..Len(other.atoms) :
        DistSq(mer.atoms[i].location, other.atoms[j].location)
            <= IsBondedThreshold * IsBondedThreshold

\* bond_count / math.sqrt(from_size * to_size)
Affinity(bond_count, from_size, to_size) ==
    (bond_count * 3600) \div ISqrt(3600 * from_size * to_size)

\* len(mer.atoms), with nothing in the place of a zero
size_unguarded(size) == size
\* len(mer.atoms) or 1
size_or_one(size) == IF size = 0 THEN 1 ELSE size

\* Interaction.__init__: the object, or the ZeroDivisionError of line 90 when
\* the square root is zero
Interaction(from_mer, to_mer) ==
    LET from_size == size_or_one(Len(from_mer.atoms))
        to_size == size_or_one(Len(to_mer.atoms))
    IN IF from_size * to_size = 0
       THEN [kind |-> "raise", exc |-> "ZeroDivisionError"]
       ELSE [from_mer |-> from_mer.name, to_mer |-> to_mer.name,
             affinity |-> Affinity(get_bond_count_with(from_mer, MerKey(to_mer.name)),
                                   from_size, to_size)]

----------------------------------------------------------------------------
(* polmst.py: parsing *)

\* line.startswith("ATOM") or line.startswith("HETATM"): rec is the record
\* name the line begins with
IsAtomLine(line) == line.rec \in {"ATOM", "HETATM"}

\* len(line) of a line as readlines returns it, its terminator included
MinLineLength == 66
LineLen(line) == line.chars + (IF line.newline THEN 1 ELSE 0)

\* The fields int() and float() are applied to (lines 36, 40-44)
NumericFields == {"atom_id", "residue_number", "x", "y", "z", "temp_factor"}

\* The column after which the annotation field line[60:66] begins
AnnotationStart == 60

\* float(line[60:66].strip()): a line that ends inside the field gives the
\* annotation without its last digit (temp_factor is in hundredths)
temp_factor_read(line) ==
    IF line.chars >= MinLineLength THEN line.temp_factor
    ELSE (line.temp_factor \div 10) * 10

\* lines 36-50 under the try: a conversion that raises ends in line 52;
\* obj is the Mer object line 48 makes for this line
parsed_fields(line, obj) ==
    IF line.bad \cap NumericFields # {} \/ line.chars <= AnnotationStart
    THEN NoneObject
    ELSE Atom(line.atom_id, Location(line.x, line.y, line.z),
              temp_factor_read(line), [name |-> line.mer_name, obj |-> obj])

\* parse_atom_line without lines 33-34
parse_atom_line_unchecked(line, obj) == parsed_fields(line, obj)
parse_atom_line(line, obj) ==
    IF LineLen(line) < MinLineLength THEN NoneObject
    ELSE parsed_fields(line, obj)

IndexOf(ms, name) == CHOOSE i \in 1..Len(ms) : ms[i].name = name

\* lines 17-24, from line i on
RECURSIVE parse_loop(_, _, _)
parse_loop(lines, i, ms) ==
    IF i > Len(lines) THEN ms
    ELSE LET line == lines[i]
             atom == IF IsAtomLine(line) THEN parse_atom_line(line, i) ELSE NoneObject
         IN IF atom = NoneObject THEN parse_loop(lines, i + 1, ms)
            ELSE LET ms1 == IF \E k \in 1..Len(ms) : ms[k].name = atom.mer.name
                            THEN ms
                            ELSE Append(ms, [Mer(atom.mer.name) EXCEPT
                                                !.obj = atom.mer.obj])
                     k == IndexOf(ms1, atom.mer.name)
                 IN parse_loop(lines, i + 1, [ms1 EXCEPT ![k] = add_atom(@, atom)])

\* lines 26-27
com_loop(ms) == [k \in 1..Len(ms) |-> calc_com(ms[k])]

\* A call that fills the dict an earlier call returned
parse_atoms_into(earlier, lines) == com_loop(parse_loop(lines, 1, earlier))
\* line 16: every call starts from a dict of its own
parse_atoms_after(earlier, lines) == com_loop(parse_loop(lines, 1, <<>>))

parse_atoms(lines) == parse_atoms_after(<<>>, lines)

----------------------------------------------------------------------------
(* polmst.py: calculate_interactions *)

BondingDistance == 18

\* lines 64-72: some atom pair at distance < 4.5
WithinBondingDistance(src, dst) ==
    \E i \in 1..Len(src.atoms), j \in 1..Len(dst.atoms) :
        DistSq(src.atoms[i].location, dst.atoms[j].location)
            < BondingDistance * BondingDistance

\* src.add_bond(dst); dst.add_bond(src)
BondBoth(ms, i, j) ==
    [ms EXCEPT ![i] = add_bond(@, MerKey(ms[j].name)),
               ![j] = add_bond(@, MerKey(ms[i].name))]

\* The test of line 60 left out
is_self_pair_never(i, j) == FALSE
\* line 60: if i == j: continue
is_self_pair(i, j) == i = j

\* lines 57-72: every ordered pair (i, j), i # j
RECURSIVE bond_loop(_, _, _)
bond_loop(ms, i, j) ==
    IF i > Len(ms) THEN ms
    ELSE IF j > Len(ms) THEN bond_loop(ms, i + 1, 1)
    ELSE IF is_self_pair(i, j) THEN bond_loop(ms, i, j + 1)
    ELSE IF WithinBondingDistance(ms[i], ms[j])
         THEN bond_loop(BondBoth(ms, i, j), i, j + 1)
         ELSE bond_loop(ms, i, j + 1)

\* lines 75-82: every pair i < j; is_bonded_to counts a bond on both sides
\* again before the Interaction is built
RECURSIVE interaction_loop(_, _, _, _)
interaction_loop(ms, inter, i, j) ==
    IF i > Len(ms) THEN [mers |-> ms, interactions |-> inter]
    ELSE IF j > Len(ms) THEN interaction_loop(ms, inter, i + 1, i + 2)
    ELSE IF is_bonded_to(ms[i], ms[j])
         THEN LET ms1 == BondBoth(ms, i, j)
              IN interaction_loop(ms1, Append(inter, Interaction(ms1[i], ms1[j])),
                                  i, j + 1)
         ELSE interaction_loop(ms, inter, i, j + 1)

calculate_interactions(ms) == interaction_loop(bond_loop(ms, 1, 1), <<>>, 1, 2)

----------------------------------------------------------------------------
(* polmst.py: build_adjacency_map *)

\* `key in mers`: mers is keyed by str, so a Mer object is never found
DictHas(ms, key) == key.kind = "str" /\ \E i \in 1..Len(ms) : ms[i].name = key.name

\* write_edge without line 110
write_edge_one_way(nbrs, from_name, to_name, weight) ==
    [nbrs EXCEPT ![from_name] =
        [k \in DOMAIN @ \cup {to_name} |-> IF k = to_name THEN weight ELSE @[k]]]

\* lines 108-110: the entry is written in both directions
write_edge(nbrs, from_name, to_name, weight) ==
    LET one == [nbrs EXCEPT ![from_name] =
                    [k \in DOMAIN @ \cup {to_name} |-> IF k = to_name THEN weight ELSE @[k]]]
    IN [one EXCEPT ![to_name] =
            [k \in DOMAIN @ \cup {from_name} |-> IF k = from_name THEN weight ELSE @[k]]]

\* lines 97-110 for one from_mer; keys lists the keys of its bond_count
RECURSIVE adjacency_items(_, _, _, _)
adjacency_items(ms, nbrs, from_mer, keys) ==
    IF keys = <<>> THEN nbrs
    ELSE LET to_mer_name == Head(keys)
             bond_count == from_mer.bond_count[to_mer_name]
         IN IF bond_count > 0 /\ DictHas(ms, to_mer_name)
            THEN LET to_mer_obj == ms[IndexOf(ms, to_mer_name.name)]
                     affinity == Affinity(bond_count, Len(from_mer.atoms),
                                          Len(to_mer_obj.atoms))
                     weight == 3600 \div affinity
                 IN adjacency_items(ms, write_edge(nbrs, from_mer.name,
                                                   to_mer_obj.name, weight),
                                    from_mer, Tail(keys))
            ELSE adjacency_items(ms, nbrs, from_mer, Tail(keys))

RECURSIVE adjacency_loop(_, _, _)
adjacency_loop(ms, nbrs, i) ==
    IF i > Len(ms) THEN nbrs
    ELSE adjacency_loop(ms, adjacency_items(ms, nbrs, ms[i],
                                            SeqOfSet(DOMAIN ms[i].bond_count)),
                        i + 1)

\* An adjacency map: order lists its keys, nbrs[k] is the inner dict of k
AdjacencyMap(order, nbrs) == [order |-> order, nbrs |-> nbrs]

\* The map returned as it is
remove_unconnected_never(names, full) == AdjacencyMap(names, full)
\* line 113: the keys with an empty inner dict are removed
remove_unconnected(names, full) ==
    LET HasAdj(n) == DOMAIN full[n] # {}
    IN AdjacencyMap(SelectSeq(names, HasAdj),
                    [n \in {m \in Range(names) : HasAdj(m)} |-> full[n]])

build_adjacency_map(ms) ==
    LET names == [i \in 1..Len(ms) |-> ms[i].name]
    IN remove_unconnected(names,
                          adjacency_loop(ms, [n \in Range(names) |-> EmptyDict], 1))

----------------------------------------------------------------------------
(* polmst.py: dijkstra, find_best_source_mer, reconstruct_path *)
(* min() over a set returns the first minimal element in the set's         *)
(* iteration order, which the code does not fix: dijkstra and what is      *)
(* built on it are the sets of the results some iteration order gives.     *)

\* line 137: the elements min(unvisited, key=...) can return
min_unvisited(unvisited, distances) ==
    {m \in unvisited : \A o \in unvisited : ~Lt(distances[o], distances[m])}

\* relax without the comparison of line 149
relax_always(adj, st, current) ==
    LET Updates(m) == m \in DOMAIN adj.nbrs[current] /\ m \notin st.visited
    IN [st EXCEPT
          !.distances = [m \in DOMAIN @ |->
                IF Updates(m)
                THEN Plus(st.distances[current], adj.nbrs[current][m]) ELSE @[m]],
          !.predecessors = [m \in DOMAIN @ |-> IF Updates(m) THEN current ELSE @[m]]]

\* relax with line 150 but without line 151
relax_without_predecessor(adj, st, current) ==
    LET Improves(m) == /\ m \in DOMAIN adj.nbrs[current]
                       /\ m \notin st.visited
                       /\ Lt(Plus(st.distances[current], adj.nbrs[current][m]),
                             st.distances[m])
    IN [st EXCEPT
          !.distances = [m \in DOMAIN @ |->
                IF Improves(m)
                THEN Plus(st.distances[current], adj.nbrs[current][m]) ELSE @[m]]]

\* lines 146-151
relax(adj, st, current) ==
    LET Improves(m) == /\ m \in DOMAIN adj.nbrs[current]
                       /\ m \notin st.visited
                       /\ Lt(Plus(st.distances[current], adj.nbrs[current][m]),
                             st.distances[m])
    IN [st EXCEPT
          !.distances = [m \in DOMAIN @ |->
                IF Improves(m)
                THEN Plus(st.distances[current], adj.nbrs[current][m]) ELSE @[m]],
          !.predecessors = [m \in DOMAIN @ |-> IF Improves(m) THEN current ELSE @[m]]]

\* lines 135-151
RECURSIVE dijkstra_loop(_, _)
dijkstra_loop(adj, st) ==
    IF st.unvisited = {} THEN {st}
    ELSE UNION {LET st1 == [st EXCEPT !.unvisited = @ \ {current},
                                      !.visited = @ \cup {current}]
                IN IF IsInf(st.distances[current]) THEN {st1}
                   ELSE dijkstra_loop(adj, relax(adj, st1, current))
                : current \in min_unvisited(st.unvisited, st.distances)}

\* line 129 alone
initial_distances_all_inf(keys, source_mer) == [m \in keys |-> Inf]
\* lines 129-130
initial_distances(keys, source_mer) ==
    [m \in keys \cup {source_mer} |-> IF m = source_mer THEN 0 ELSE Inf]

dijkstra(adj, source_mer) ==
    LET keys == Range(adj.order)
    IN {[distances |-> st.distances, predecessors |-> st.predecessors] :
          st \in dijkstra_loop(adj,
                    [distances |-> initial_distances(keys, source_mer),
                     predecessors |-> [m \in keys |-> None],
                     visited |-> {},
                     unvisited |-> keys])}

\* line 170: sum(d for d in dist.values() if not math.isinf(d))
total_distance(dist) ==
    LET keys == SeqOfSet(DOMAIN dist)
    IN SumSeq([i \in 1..Len(keys) |-> IF IsInf(dist[keys[i]]) THEN 0 ELSE dist[keys[i]]])

\* best_step without the comparison of line 171
best_step_always(b, source_mer, total) ==
    [best_mer |-> source_mer, min_total_distance |-> total]

\* best_step with <= in the place of the < of line 171
best_step_or_equal(b, source_mer, total) ==
    IF ~Lt(b.min_total_distance, total)
    THEN [best_mer |-> source_mer, min_total_distance |-> total]
    ELSE b

\* lines 171-173
best_step(b, source_mer, total) ==
    IF Lt(total, b.min_total_distance)
    THEN [best_mer |-> source_mer, min_total_distance |-> total]
    ELSE b

\* lines 168-173
RECURSIVE best_loop(_, _, _)
best_loop(adj, i, bs) ==
    IF i > Len(adj.order) THEN bs
    ELSE best_loop(adj, i + 1,
            {best_step(b, adj.order[i], total_distance(dj.distances)) :
                b \in bs, dj \in dijkstra(adj, adj.order[i])})

find_best_source_mer(ms, adj) ==
    {b.best_mer : b \in best_loop(adj, 1, {[best_mer |-> None,
                                            min_total_distance |-> Inf]})}

RECURSIVE reconstruct_loop(_, _, _)
reconstruct_loop(predecessors, current, path) ==
    IF current = None THEN path
    ELSE reconstruct_loop(predecessors, predecessors[current], <<current>> \o path)

reconstruct_path(predecessors, target_mer) ==
    reconstruct_loop(predecessors, target_mer, <<>>)

----------------------------------------------------------------------------
(* polmst.py: sum_weights_along_path and the rest of process_pdb_file *)

Raise(exc) == [kind |-> "raise", exc |-> exc]
IsRaise(v) == "kind" \in DOMAIN v /\ v.kind = "raise"

\* lines 212-216: the first interaction between the two mers, 0 for none
Matching(inter, from_mer, to_mer) ==
    {k \in 1..Len(inter) :
        \/ inter[k].from_mer = from_mer /\ inter[k].to_mer = to_mer
        \/ inter[k].from_mer = to_mer /\ inter[k].to_mer = from_mer}

\* interaction.weight: an Interaction object has the attributes it was given
RECURSIVE weights_loop(_, _, _, _)
weights_loop(inter, path, i, total_weight) ==
    IF i > Len(path) - 1 THEN [kind |-> "value", value |-> total_weight]
    ELSE LET found == Matching(inter, path[i], path[i + 1])
         IN IF found = {} THEN weights_loop(inter, path, i + 1, total_weight)
            ELSE LET interaction == inter[CHOOSE k \in found : \A l \in found : k <= l]
                 IN IF "weight" \notin DOMAIN interaction THEN Raise("AttributeError")
                    ELSE weights_loop(inter, path, i + 1,
                                      Plus(total_weight, interaction.weight))

sum_weights_along_path(ms, inter, path) == weights_loop(inter, path, 1, 0)

\* lines 306-316: the sums in key order, or the exception of the first
\* key whose sum raises
RECURSIVE sums_loop(_, _, _, _, _, _)
sums_loop(ms, inter, adj, best, dj, sums) ==
    IF Len(sums) = Len(adj.order)
    THEN [kind |-> "value",
          value |-> [m \in Range(adj.order) |->
                        sums[CHOOSE i \in 1..Len(adj.order) : adj.order[i] = m]]]
    ELSE LET mer == adj.order[Len(sums) + 1]
         IN IF mer = best THEN sums_loop(ms, inter, adj, best, dj, Append(sums, 0))
            ELSE IF IsInf(dj.distances[mer])
                 THEN sums_loop(ms, inter, adj, best, dj, Append(sums, Inf))
            ELSE LET w == sum_weights_along_path(ms, inter,
                              reconstruct_path(dj.predecessors, mer))
                 IN IF IsRaise(w) THEN w
                    ELSE sums_loop(ms, inter, adj, best, dj, Append(sums, w.value))

\* lines 302-316
total_weight_sums(ms, inter, adj, best) ==
    {sums_loop(ms, inter, adj, best, dj, <<>>) : dj \in dijkstra(adj, best)}

\* generate_enhanced_pdb: the lines before the first atom line, two remarks
\* and a blank line, then one CA line per key of weights
RECURSIVE headers(_)
headers(lines) ==
    IF lines = <<>> \/ IsAtomLine(Head(lines)) THEN <<>>
    ELSE <<Head(lines)>> \o headers(Tail(lines))

\* lines 250-251: two remark lines and an empty line
remarks(source_mer) ==
    <<[rec |-> "REMARK", source_mer |-> source_mer, inserted |-> 1],
      [rec |-> "REMARK", inserted |-> 2],
      [rec |-> "", inserted |-> 3]>>

RECURSIVE Digits(_)
Digits(n) == IF n < 10 THEN 1 ELSE 1 + Digits(n \div 10)

\* "{:>6.2f}".format(weight): the value in hundredths, rounded to the nearest
\* (weight is in units of 1/60), and the characters the field takes; the
\* width 6 is a minimum, and math.inf is written as the text inf
FieldWidth == 6
format_6_2f(weight) ==
    IF IsInf(weight) THEN [text |-> "inf", hundredths |-> 0, width |-> FieldWidth]
    ELSE LET h == (10 * weight + 3) \div 6
             w == Digits(h \div 100) + 3
         IN [text |-> "number", hundredths |-> h,
             width |-> IF w < FieldWidth THEN FieldWidth ELSE w]

\* lines 257-284: the CA line of one key of weights
ca_line(weights, ms, mer) ==
    LET loc == IF \E k \in 1..Len(ms) : ms[k].name = mer
               THEN ms[IndexOf(ms, mer)].center_of_mass
               ELSE Location(0, 0, 0)
    IN [rec |-> "ATOM", atom_id |-> 0, name |-> "CA", mer_name |-> mer,
        x |-> loc.x, y |-> loc.y, z |-> loc.z,
        temp_factor |-> format_6_2f(weights[mer])]

\* One pass of the loop of line 255 that also stores the weight in the atoms
\* of the residue
ca_step_storing(st, mer) ==
    [st EXCEPT
        !.text = Append(@, ca_line(st.weights, st.mers, mer)),
        !.mers = [k \in 1..Len(@) |->
                    IF @[k].name # mer THEN @[k]
                    ELSE [@[k] EXCEPT !.atoms =
                            [j \in 1..Len(@) |->
                                [@[j] EXCEPT !.temp_factor =
                                    format_6_2f(st.weights[mer]).hundredths]]]]]
\* One pass of the loop of line 255: it reads weights and mers and writes
\* to the output buffer only
ca_step(st, mer) ==
    [st EXCEPT !.text = Append(@, ca_line(st.weights, st.mers, mer))]

RECURSIVE ca_loop(_, _, _)
ca_loop(st, key_order, i) ==
    IF i > Len(key_order) THEN st
    ELSE ca_loop(ca_step(st, key_order[i]), key_order, i + 1)

\* generate_enhanced_pdb: the text it returns and the objects it was given,
\* as they are after the call
generate_enhanced_pdb_call(weights, source_mer, original_file, ms, key_order) ==
    ca_loop([text |-> headers(original_file) \o remarks(source_mer),
             weights |-> weights, mers |-> ms],
            key_order, 1)

generate_enhanced_pdb(weights, source_mer, original_file, ms, key_order) ==
    generate_enhanced_pdb_call(weights, source_mer, original_file, ms, key_order).text

\* lines 318-323
all_enhanced_pdbs(path, ms, adj) ==
    LET pdbs(source_mer) ==
            {generate_enhanced_pdb(dj.distances, source_mer, path, ms, adj.order) :
                dj \in dijkstra(adj, source_mer)}
    IN {f \in [Range(adj.order) -> UNION {pdbs(m) : m \in Range(adj.order)}] :
          \A m \in Range(adj.order) : f[m] \in pdbs(m)}

\* lines 299-326
process_rest(path, ms, inter, adj, best) ==
    IF best = None THEN {Raise("ValueError")}
    ELSE UNION {IF IsRaise(sums) THEN {sums}
                ELSE {[kind |-> "return",
                       file_reads |-> 1 + Len(adj.order),
                       value |-> <<best, ms, sums.value, pdbs, inter>>,
                       best_source_mer |-> best,
                       mers |-> ms,
                       total_weight_sums |-> sums.value,
                       all_enhanced_pdbs |-> pdbs,
                       interactions |-> inter] :
                      pdbs \in all_enhanced_pdbs(path, ms, adj)}
                : sums \in total_weight_sums(ms, inter, adj, best)}

\* file_upload_page.py, WorkerThread.run: the signal emitted for what
\* process_pdb_file returned or raised; the names of line 46 are bound to the
\* returned tuple by position
UnpackCount == 5
run(outcome) ==
    IF IsRaise(outcome) THEN [kind |-> "error", message |-> outcome.exc]
    ELSE IF Len(outcome.value) # UnpackCount
    THEN [kind |-> "error", message |-> "ValueError"]
    ELSE [kind |-> "finished",
          best_source_mer |-> outcome.value[1],
          mers |-> outcome.value[2],
          total_weight_sums |-> outcome.value[3],
          interactions |-> outcome.value[4],
          all_distance_sums |-> outcome.value[5]]

----------------------------------------------------------------------------
(* The files, residue maps and adjacency maps the specifications draw *)

\* Residue i has n atom lines, the j-th a quarter-angstrom further along x
ResidueLines(i, x, n) ==
    [j \in 1..n |->
        [rec |-> IF j = 1 THEN "ATOM" ELSE "HETATM", chars |-> 80,
         newline |-> TRUE, bad |-> {},
         atom_id |-> 10 * i + j, mer_name |-> Names[i],
         x |-> x + (j - 1), y |-> 0, z |-> 0, temp_factor |-> 100 * i + j]]

RECURSIVE AtomLines(_, _, _)
AtomLines(n, xs, cs) ==
    IF n = 0 THEN <<>>
    ELSE AtomLines(n - 1, xs, cs) \o ResidueLines(n, xs[n], cs[n])

FileOf(n, xs, cs) ==
    <<[rec |-> "HEADER"]>> \o AtomLines(n, xs, cs) \o <<[rec |-> "END"]>>

\* The atom counts of n residues: one atom each, but for one residue
AtomCounts(n) ==
    {[i \in 1..n |-> 1]}
    \cup {[i \in 1..n |-> IF i = r THEN c ELSE 1] : r \in 1..n, c \in 1..MaxAtoms}

NoAdjacency == AdjacencyMap(<<>>, EmptyDict)

----------------------------------------------------------------------------
(* Spec: one run of process_pdb_file on a drawn file *)

Init ==
    /\ pc = "start"
    /\ \E n \in 0..MaxRes :
          \E xs \in [1..n -> Positions], cs \in AtomCounts(n) :
             file = FileOf(n, xs, cs)
    /\ raw_lines = <<>>
    /\ mers = <<>>
    /\ interactions = <<>>
    /\ adjacency_map = NoAdjacency
    /\ best_source_mer = None
    /\ result = NoneObject
    /\ page = NoneObject

\* line 292
ReadInputFile ==
    /\ pc = "start"
    /\ raw_lines' = file
    /\ pc' = "read"
    /\ UNCHANGED <<page, file, mers, interactions, adjacency_map, best_source_mer, result>>

\* line 293
ParseAtoms ==
    /\ pc = "read"
    /\ mers' = parse_atoms(raw_lines)
    /\ pc' = "parsed"
    /\ UNCHANGED <<page, file, raw_lines, interactions, adjacency_map, best_source_mer, result>>

\* line 294
CalculateInteractions ==
    /\ pc = "parsed"
    /\ LET r == calculate_interactions(mers)
       IN mers' = r.mers /\ interactions' = r.interactions
    /\ pc' = "interacted"
    /\ UNCHANGED <<page, file, raw_lines, adjacency_map, best_source_mer, result>>

\* line 295
BuildAdjacencyMap ==
    /\ pc = "interacted"
    /\ adjacency_map' = build_adjacency_map(mers)
    /\ pc' = "built"
    /\ UNCHANGED <<page, file, raw_lines, mers, interactions, best_source_mer, result>>

\* line 298
FindBestSourceMer ==
    /\ pc = "built"
    /\ best_source_mer' \in find_best_source_mer(mers, adjacency_map)
    /\ pc' = "best"
    /\ UNCHANGED <<page, file, raw_lines, mers, interactions, adjacency_map, result>>

\* lines 299-326
Finish ==
    /\ pc = "best"
    /\ result' \in process_rest(file, mers, interactions, adjacency_map,
                                best_source_mer)
    /\ pc' = "done"
    /\ UNCHANGED <<page, file, raw_lines, mers, interactions, adjacency_map, best_source_mer>>

\* file_upload_page.py lines 44-55
WorkerEmit ==
    /\ pc = "done"
    /\ result' = run(result)
    /\ pc' = "emitted"
    /\ UNCHANGED <<page, file, raw_lines, mers, interactions, adjacency_map, best_source_mer>>

Next ==
    \/ ReadInputFile
    \/ ParseAtoms
    \/ CalculateInteractions
    \/ BuildAdjacencyMap
    \/ FindBestSourceMer
    \/ Finish
    \/ WorkerEmit

Spec == Init /\ [][Next]_vars

----------------------------------------------------------------------------
(* SpecAdj: build_adjacency_map called on a residue map whose bond tables  *)
(* were filled through Mer.add_bond, with a Mer object as                  *)
(* calculate_interactions passes it or with the residue name under which   *)
(* build_adjacency_map looks the entry up                                  *)

AdjNames == SubSeq(Names, 1, MaxNodes)
Dangling == Names[MaxNodes + 1]

\* Residue i of the map has 1..MaxAtoms atoms, by turns
AdjMer(i) ==
    [Mer(Names[i]) EXCEPT
        !.obj = i,
        !.atoms = [j \in 1..(((i - 1) % MaxAtoms) + 1) |->
                     Atom(10 * i + j, Location(0, 0, 0), 0,
                          [name |-> Names[i], obj |-> i])]]

BondCalls(ms) ==
    SumSeq([i \in 1..Len(ms) |->
              SumSeq([k \in 1..Cardinality(DOMAIN ms[i].bond_count) |->
                        ms[i].bond_count[SeqOfSet(DOMAIN ms[i].bond_count)[k]]])])

InitAdj ==
    /\ pc = "bonds"
    /\ file = <<>>
    /\ raw_lines = <<>>
    /\ mers = [i \in 1..MaxNodes |-> AdjMer(i)]
    /\ interactions = <<>>
    /\ adjacency_map = NoAdjacency
    /\ best_source_mer = None
    /\ result = NoneObject
    /\ page = NoneObject

\* models.py line 51, called on mers[i]
AddBond ==
    /\ pc = "bonds"
    /\ BondCalls(mers) < MaxCalls
    /\ \E i \in 1..Len(mers), n \in Range(AdjNames) \cup {Dangling},
          kind \in {"Mer", "str"} :
          mers' = [mers EXCEPT ![i] = add_bond(@, [kind |-> kind, name |-> n])]
    /\ UNCHANGED <<page, pc, file, raw_lines, interactions, adjacency_map, best_source_mer, result>>

CallBuildAdjacencyMap ==
    /\ pc = "bonds"
    /\ adjacency_map' = build_adjacency_map(mers)
    /\ pc' = "adjacency"
    /\ UNCHANGED <<page, file, raw_lines, mers, interactions, best_source_mer, result>>

NextAdj == AddBond \/ CallBuildAdjacencyMap

SpecAdj == InitAdj /\ [][NextAdj]_vars

----------------------------------------------------------------------------
(* SpecGraph: dijkstra, find_best_source_mer and the path sums of          *)
(* process_pdb_file called on a drawn symmetric adjacency map and the      *)
(* Interaction objects of its edges                                        *)

GraphPairs(n) == {p \in (1..n) \X (1..n) : p[1] < p[2]}

\* Unit-size residues: the weight of an edge with bond count c
EdgeWeight(c) == 3600 \div Affinity(c, 1, 1)

GraphCount(counts, i, j) == IF i < j THEN counts[<<i, j>>] ELSE counts[<<j, i>>]

GraphOf(n, counts) ==
    AdjacencyMap(SubSeq(Names, 1, n),
        [a \in Range(SubSeq(Names, 1, n)) |->
            LET i == CHOOSE k \in 1..n : Names[k] = a
                nb == {j \in (1..n) \ {i} : GraphCount(counts, i, j) > 0}
            IN [b \in {Names[j] : j \in nb} |->
                    EdgeWeight(GraphCount(counts, i, CHOOSE k \in 1..n : Names[k] = b))]])

InteractionsOf(n, counts) ==
    LET edges == SelectSeq(SeqOfSet(GraphPairs(n)), LAMBDA p : counts[p] > 0)
    IN [k \in 1..Len(edges) |->
          [from_mer |-> Names[edges[k][1]], to_mer |-> Names[edges[k][2]],
           affinity |-> Affinity(counts[edges[k]], 1, 1)]]

InitGraph ==
    /\ pc = "graph"
    /\ file = <<>>
    /\ raw_lines = <<>>
    /\ mers = <<>>
    /\ \E n \in 1..MaxNodes : \E counts \in [GraphPairs(n) -> 0..MaxCount] :
          /\ adjacency_map = GraphOf(n, counts)
          /\ interactions = InteractionsOf(n, counts)
    /\ best_source_mer = None
    /\ result = NoneObject
    /\ page = NoneObject

GraphFrame == UNCHANGED <<page, file, raw_lines, mers, interactions, adjacency_map>>

CallDijkstra ==
    /\ pc = "graph"
    /\ \E source_mer \in Range(adjacency_map.order) :
          \E dj \in dijkstra(adjacency_map, source_mer) :
             result' = [kind |-> "dijkstra", source_mer |-> source_mer,
                        distances |-> dj.distances, predecessors |-> dj.predecessors]
    /\ pc' = "called"
    /\ UNCHANGED best_source_mer
    /\ GraphFrame

CallFindBestSourceMer ==
    /\ pc = "graph"
    /\ best_source_mer' \in find_best_source_mer(mers, adjacency_map)
    /\ result' = [kind |-> "find_best_source_mer"]
    /\ pc' = "called"
    /\ GraphFrame

\* process_pdb_file lines 298-316
CallTotalWeightSums ==
    /\ pc = "graph"
    /\ \E best \in find_best_source_mer(mers, adjacency_map) :
          \E dj \in dijkstra(adjacency_map, best) :
             /\ best_source_mer' = best
             /\ result' = [kind |-> "total_weight_sums",
                           distances |-> dj.distances,
                           predecessors |-> dj.predecessors,
                           sums |-> sums_loop(mers, interactions, adjacency_map,
                                              best, dj, <<>>)]
    /\ pc' = "called"
    /\ GraphFrame

\* reconstruct_path for every target, on what dijkstra returned for a source
CallReconstructPath ==
    /\ pc = "graph"
    /\ \E source_mer \in Range(adjacency_map.order) :
          \E dj \in dijkstra(adjacency_map, source_mer) :
             result' = [kind |-> "reconstruct_path", source_mer |-> source_mer,
                        distances |-> dj.distances, predecessors |-> dj.predecessors,
                        paths |-> [t \in Range(adjacency_map.order) |->
                                      reconstruct_path(dj.predecessors, t)]]
    /\ pc' = "called"
    /\ UNCHANGED best_source_mer
    /\ GraphFrame

NextGraph ==
    \/ CallDijkstra
    \/ CallFindBestSourceMer
    \/ CallTotalWeightSums
    \/ CallReconstructPath

SpecGraph == InitGraph /\ [][NextGraph]_vars

----------------------------------------------------------------------------
(* SpecParse: parse_atoms called twice on drawn raw lines, some of them     *)
(* malformed                                                                *)

LineKinds == {"atomA", "hetA", "atomB", "short", "edge", "cut", "bad_id",
              "bad_number", "bad_x", "bad_temp", "remark"}

\* The line of a kind at position i of the file; i is its serial number.
\* "short" ends before the coordinates, "edge" and "cut" have 65 characters,
\* "cut" without a terminator (the last line of a file)
ParseLine(kind, i) ==
    IF kind = "remark" THEN [rec |-> "REMARK"]
    ELSE [rec |-> IF kind = "hetA" THEN "HETATM" ELSE "ATOM",
          chars |-> IF kind = "short" THEN 29
                    ELSE IF kind \in {"edge", "cut"} THEN MinLineLength - 1
                    ELSE 80,
          newline |-> kind # "cut",
          bad |-> IF kind = "bad_id" THEN {"atom_id"}
                  ELSE IF kind = "bad_number" THEN {"residue_number"}
                  ELSE IF kind = "bad_x" THEN {"x"}
                  ELSE IF kind = "bad_temp" THEN {"temp_factor"}
                  ELSE {},
          atom_id |-> i,
          mer_name |-> IF kind \in {"atomB", "edge"} THEN Names[2] ELSE Names[1],
          x |-> 4 * i, y |-> i, z |-> 0, temp_factor |-> 1234]

InitParse ==
    /\ pc = "lines"
    /\ file = <<>>
    /\ \E n \in 0..MaxLines : \E ks \in [1..n -> LineKinds] :
          raw_lines = [i \in 1..n |-> ParseLine(ks[i], i)]
    /\ mers = <<>>
    /\ interactions = <<>>
    /\ adjacency_map = NoAdjacency
    /\ best_source_mer = None
    /\ result = NoneObject
    /\ page = NoneObject

\* parse_atoms(raw_lines)
ParseAtomsFirst ==
    /\ pc = "lines"
    /\ mers' = parse_atoms(raw_lines)
    /\ pc' = "parsed"
    /\ UNCHANGED <<page, file, raw_lines, interactions, adjacency_map, best_source_mer, result>>

\* parse_atoms(raw_lines) once more, the first residue map still held
ParseAtomsAgain ==
    /\ pc = "parsed"
    /\ result' = [kind |-> "parse_atoms", mers |-> parse_atoms_after(mers, raw_lines)]
    /\ pc' = "parsed_again"
    /\ UNCHANGED <<page, file, raw_lines, mers, interactions, adjacency_map, best_source_mer>>

NextParse == ParseAtomsFirst \/ ParseAtomsAgain

SpecParse == InitParse /\ [][NextParse]_vars

----------------------------------------------------------------------------
(* SpecPdb: generate_enhanced_pdb called, as mer_list_page.py calls it, on  *)
(* a drawn file, its residue map and a drawn distance map, again and again  *)
(* and for one source after another                                         *)

PdbNames == SubSeq(Names, 1, MaxKeys)
AbsentName == Names[MaxKeys + 1]

\* 0.0, 1.5, 1000.0 and math.inf
WeightValues == <<0, 90, 60000, Inf>>

\* The key orders of a dict of at most MaxKeys keys
KeyOrders ==
    UNION {{o \in [1..n -> Range(PdbNames) \cup {AbsentName}] :
              \A i, j \in 1..n : i # j => o[i] # o[j]} : n \in 0..MaxKeys}

\* The distance map with the keys of order, the i-th of the value i + v
WeightsOf(order, v) ==
    [m \in Range(order) |->
        WeightValues[((v + (CHOOSE i \in 1..Len(order) : order[i] = m))
                      % Len(WeightValues)) + 1]]

PdbFileOf(pre, n, cs, post) == pre \o AtomLines(n, [i \in 1..n |-> 12 * i], cs) \o post

InitPdb ==
    /\ pc = "arguments"
    /\ \E wrapped \in BOOLEAN, n \in 0..MaxKeys :
          \E cs \in AtomCounts(n) :
             file = IF wrapped
                    THEN PdbFileOf(<<[rec |-> "HEADER"], [rec |-> "REMARK"]>>, n, cs,
                                   <<[rec |-> "TER"], [rec |-> "END"]>>)
                    ELSE PdbFileOf(<<>>, n, cs, <<>>)
    /\ raw_lines = file
    /\ mers = parse_atoms(file)
    /\ interactions = <<>>
    /\ adjacency_map = NoAdjacency
    /\ best_source_mer = None
    /\ page = NoneObject
    /\ \E order \in KeyOrders, v \in 1..Len(WeightValues),
          s \in Range(PdbNames) \cup {AbsentName} :
          result = [kind |-> "arguments", weights |-> WeightsOf(order, v),
                    key_order |-> order, source_mer |-> s, text |-> <<>>,
                    calls |-> 0]

\* mer_list_page.py lines 154-156 and 193-198: one call for source_mer
GeneratePdb(source_mer) ==
    /\ pc \in {"arguments", "generated"}
    /\ result.calls < MaxCalls
    /\ LET r == generate_enhanced_pdb_call(result.weights, source_mer, file, mers,
                                           result.key_order)
       IN /\ result' = [result EXCEPT !.kind = "generate_enhanced_pdb",
                                      !.source_mer = source_mer,
                                      !.weights = r.weights,
                                      !.text = r.text,
                                      !.calls = @ + 1]
          /\ mers' = r.mers
    /\ pc' = "generated"
    /\ UNCHANGED <<page, file, raw_lines, interactions, adjacency_map, best_source_mer>>

CallGenerateEnhancedPdb == GeneratePdb(result.source_mer)

CallForAnotherSource ==
    \E s \in (Range(PdbNames) \cup {AbsentName}) \ {result.source_mer} : GeneratePdb(s)

NextPdb == CallGenerateEnhancedPdb \/ CallForAnotherSource

SpecPdb == InitPdb /\ [][NextPdb]_vars

----------------------------------------------------------------------------
(* SpecBond: calculate_interactions and build_adjacency_map called on a     *)
(* drawn residue map, residues without atoms included, and Interaction      *)
(* objects made from its residues                                           *)

\* Single atoms at 0 and 16 are 4.0 apart, at 16 and 33 4.25 apart
BondPositions == {0, 16, 33}
BondSizes == {0, 1, MaxAtoms}

BondMer(i, x, size) ==
    calc_com([Mer(Names[i]) EXCEPT
                !.obj = i,
                !.atoms = [j \in 1..size |->
                             Atom(10 * i + j, Location(x + (j - 1), 0, 0), 0,
                                  [name |-> Names[i], obj |-> i])]])

InitBond ==
    /\ pc = "parsed"
    /\ file = <<>>
    /\ raw_lines = <<>>
    /\ \E n \in 0..MaxNodes :
          \E xs \in [1..n -> BondPositions], sizes \in [1..n -> BondSizes] :
             mers = [i \in 1..n |-> BondMer(i, xs[i], sizes[i])]
    /\ interactions = <<>>
    /\ adjacency_map = NoAdjacency
    /\ best_source_mer = None
    /\ result = NoneObject
    /\ page = NoneObject

\* Interaction(src, dst) for two residues of the map
MakeInteraction ==
    /\ pc = "built_by_name"
    /\ \E i, j \in 1..Len(mers) :
          /\ i # j
          /\ result' = [kind |-> "Interaction", from |-> i, to |-> j,
                        made |-> Interaction(mers[i], mers[j])]
    /\ pc' = "made"
    /\ UNCHANGED <<page, file, raw_lines, mers, interactions, adjacency_map,
                   best_source_mer>>

\* The residue map with every bond count held under the name of the other
\* residue, the key line 99 looks up
keyed_by_name(ms) ==
    [i \in 1..Len(ms) |->
        [ms[i] EXCEPT !.bond_count =
            [k \in {StrKey(key.name) : key \in DOMAIN ms[i].bond_count} |->
                ms[i].bond_count[MerKey(k.name)]]]]

\* build_adjacency_map on the bond counts calculate_interactions counted,
\* held by name
BuildAdjacencyMapByName ==
    /\ pc = "interacted"
    /\ adjacency_map' = build_adjacency_map(keyed_by_name(mers))
    /\ pc' = "built_by_name"
    /\ UNCHANGED <<page, file, raw_lines, mers, interactions, best_source_mer, result>>

NextBond ==
    \/ CalculateInteractions
    \/ BuildAdjacencyMap
    \/ BuildAdjacencyMapByName
    \/ MakeInteraction

SpecBond == InitBond /\ [][NextBond]_vars

----------------------------------------------------------------------------
(* SpecUi: the file-upload page. The user picks files and presses Process;  *)
(* each WorkerThread runs process_pdb_file, taken here as a call that       *)
(* returns a tuple or raises, and its signal is handled by the page later,  *)
(* in the thread of the page                                                *)

\* What QFileDialog.getOpenFileName gives: a path, or "" when cancelled
FilePaths == {"", "a.pdb", "b.pdb"}

\* What process_pdb_file gives the worker: an exception, a tuple of five
\* values, a tuple of another length
ProcessOutcomes ==
    {Raise("ValueError"), Raise("FileNotFoundError"),
     [kind |-> "return", value |-> <<None, <<>>, EmptyDict, EmptyDict, <<>>>>],
     [kind |-> "return", value |-> <<None, <<>>, EmptyDict, EmptyDict, <<>>, FALSE>>]}

\* init_ui: Select enabled, Process and View Raw disabled, no worker
NewPage ==
    [selected_file |-> "", select_btn |-> TRUE, process_btn |-> FALSE,
     view_raw_btn |-> FALSE, progress_bar |-> FALSE, workers |-> <<>>]

\* pick_file
pick_file(pg, file_path) ==
    IF file_path # ""
    THEN [pg EXCEPT !.selected_file = file_path, !.process_btn = TRUE,
                    !.view_raw_btn = TRUE]
    ELSE [pg EXCEPT !.process_btn = FALSE, !.view_raw_btn = FALSE]

\* Lines 250-252 with line 251 left out
show_processing_keeping_process(pg) ==
    [pg EXCEPT !.select_btn = FALSE, !.progress_bar = TRUE]
\* process_file lines 250-252
show_processing(pg) ==
    [pg EXCEPT !.select_btn = FALSE, !.process_btn = FALSE, !.progress_bar = TRUE]

\* process_file: lines 241-243 return early, lines 255-258 start a worker
process_file(pg) ==
    IF pg.selected_file = "" THEN pg
    ELSE [show_processing(pg) EXCEPT
            !.workers = Append(@, [status |-> "running", signals |-> <<>>])]

\* The handlers' lines 270-275 and 310-315
hide_processing(pg) ==
    [pg EXCEPT !.select_btn = TRUE, !.process_btn = TRUE, !.progress_bar = FALSE]

\* on_processing_finished and on_processing_error, for the signal of worker k
on_processing_signal(pg, k) ==
    [hide_processing(pg) EXCEPT !.workers[k].status = "handled"]

InitUi ==
    /\ pc = "page"
    /\ file = <<>>
    /\ raw_lines = <<>>
    /\ mers = <<>>
    /\ interactions = <<>>
    /\ adjacency_map = NoAdjacency
    /\ best_source_mer = None
    /\ result = NoneObject
    /\ page = NewPage

UiFrame == UNCHANGED <<pc, file, raw_lines, mers, interactions, adjacency_map,
                       best_source_mer, result>>

\* A click on Select File, which an enabled button takes
PickFile ==
    /\ page.select_btn
    /\ \E file_path \in FilePaths : page' = pick_file(page, file_path)
    /\ UiFrame

\* A click on Process File
ProcessFile ==
    /\ page.process_btn
    /\ Len(page.workers) < MaxCalls
    /\ page' = process_file(page)
    /\ UiFrame

\* WorkerThread.run of a started worker: one signal is queued for the page
WorkerRun ==
    /\ \E k \in 1..Len(page.workers), outcome \in ProcessOutcomes :
          /\ page.workers[k].status = "running"
          /\ page' = [page EXCEPT !.workers[k] =
                        [status |-> "emitted",
                         signals |-> Append(@.signals, run(outcome))]]
    /\ UiFrame

OnProcessingFinished ==
    /\ \E k \in 1..Len(page.workers) :
          /\ page.workers[k].status = "emitted"
          /\ page.workers[k].signals[1].kind = "finished"
          /\ page' = on_processing_signal(page, k)
    /\ UiFrame

OnProcessingError ==
    /\ \E k \in 1..Len(page.workers) :
          /\ page.workers[k].status = "emitted"
          /\ page.workers[k].signals[1].kind = "error"
          /\ page' = on_processing_signal(page, k)
    /\ UiFrame

NextUi ==
    \/ PickFile
    \/ ProcessFile
    \/ WorkerRun
    \/ OnProcessingFinished
    \/ OnProcessingError

\* A started thread runs to its end and the event loop of the page delivers
\* every queued signal
SpecUi ==
    /\ InitUi
    /\ [][NextUi]_vars
    /\ WF_vars(WorkerRun)
    /\ WF_vars(OnProcessingFinished)
    /\ WF_vars(OnProcessingError)

----------------------------------------------------------------------------
(* Reference definitions the properties are stated with *)

Keys(adj) == Range(adj.order)
MerNames(ms) == {ms[i].name : i \in 1..Len(ms)}
Size(ms, i) == Len(ms[i].atoms)

\* The bond count residue i holds for residue j
BondCount(ms, i, j) == get_bond_count_with(ms[i], MerKey(ms[j].name))

\* The least element of a set of weights, Inf for the empty set
Least(ws) ==
    IF ws \subseteq {Inf} THEN Inf
    ELSE CHOOSE w \in ws \ {Inf} : \A v \in ws \ {Inf} : w <= v

\* The least weight of a simple path from cur to t that avoids seen
RECURSIVE LeastPath(_, _, _, _)
LeastPath(adj, cur, t, seen) ==
    IF cur = t THEN 0
    ELSE Least({Plus(adj.nbrs[cur][n], LeastPath(adj, n, t, seen \cup {n})) :
                  n \in DOMAIN adj.nbrs[cur] \ seen})

\* The least weight of a path from s to t, Inf when there is none
RefDist(adj, s, t) == LeastPath(adj, s, t, {s})

\* The sum of the finite least weights from s
RefTotal(adj, s) ==
    LET ks == SeqOfSet(Keys(adj))
    IN SumSeq([i \in 1..Len(ks) |->
                 IF IsInf(RefDist(adj, s, ks[i])) THEN 0 ELSE RefDist(adj, s, ks[i])])

\* The residues bonded to residue i, by the bond counts
BondedTo(ms, i) == {j \in 1..Len(ms) : j # i /\ BondCount(ms, i, j) > 0}

RECURSIVE Closure(_, _)
Closure(ms, S) ==
    LET T == S \cup UNION {BondedTo(ms, i) : i \in S}
    IN IF T = S THEN S ELSE Closure(ms, T)

\* The connected components of the graph of bonded residues
Components(ms) ==
    {Closure(ms, {i}) : i \in {k \in 1..Len(ms) : BondedTo(ms, k) # {}}}

AfterInteractions == pc \in {"interacted", "built", "best", "done", "emitted"}
AfterAdjacency == pc \in {"built", "best", "done", "emitted"}

----------------------------------------------------------------------------
(* Properties *)

\* C1: after build_adjacency_map, whenever adj[A] has an entry for B, adj[B]
\* has an entry for A and the two weights are equal.
C1_Symmetry ==
    pc = "adjacency" =>
        \A a \in DOMAIN adjacency_map.nbrs : \A b \in DOMAIN adjacency_map.nbrs[a] :
            /\ b \in DOMAIN adjacency_map.nbrs
            /\ a \in DOMAIN adjacency_map.nbrs[b]
            /\ adjacency_map.nbrs[b][a] = adjacency_map.nbrs[a][b]

\* An edge was built from a bond entry that only one of the two residues holds
C1_Witness ==
    /\ pc = "adjacency"
    /\ \E i, j \in 1..Len(mers) :
          /\ i # j
          /\ StrKey(mers[j].name) \in DOMAIN mers[i].bond_count
          /\ StrKey(mers[i].name) \notin DOMAIN mers[j].bond_count
          /\ mers[i].name \in DOMAIN adjacency_map.nbrs
          /\ mers[j].name \in DOMAIN adjacency_map.nbrs[mers[i].name]

\* C2: in one run of the pipeline, every pair of residues A, B of the residue
\* map where A holds a positive bond count for B has an edge A-B in the
\* adjacency map, of weight 1/affinity, affinity = bond_count / sqrt(size(A) * size(B)).
C2_BondedPairsHaveEdges ==
    AfterAdjacency =>
        \A i, j \in 1..Len(mers) :
            (i # j /\ BondCount(mers, i, j) > 0) =>
                /\ mers[i].name \in DOMAIN adjacency_map.nbrs
                /\ mers[j].name \in DOMAIN adjacency_map.nbrs[mers[i].name]
                /\ adjacency_map.nbrs[mers[i].name][mers[j].name]
                      = 3600 \div Affinity(BondCount(mers, i, j), Size(mers, i),
                                           Size(mers, j))

\* A file of four single-atom residues 3 A apart along a line
ChainFile == FileOf(4, <<0, 12, 24, 36>>, <<1, 1, 1, 1>>)

\* C3: on the linear chain A-B-C-D with identical atom counts, the pipeline
\* gives every edge one weight w, the end residues the total 6w, the inner
\* residues the total 4w, and B or C as the best source.
C3_LinearChain ==
    (pc \in {"best", "done"} /\ file = ChainFile) =>
        /\ DOMAIN adjacency_map.nbrs = {"A", "B", "C", "D"}
        /\ DOMAIN adjacency_map.nbrs["A"] = {"B"}
        /\ DOMAIN adjacency_map.nbrs["B"] = {"A", "C"}
        /\ DOMAIN adjacency_map.nbrs["C"] = {"B", "D"}
        /\ DOMAIN adjacency_map.nbrs["D"] = {"C"}
        /\ LET w == adjacency_map.nbrs["A"]["B"]
           IN /\ \A a \in Keys(adjacency_map) : \A b \in DOMAIN adjacency_map.nbrs[a] :
                    adjacency_map.nbrs[a][b] = w
              /\ \A dj \in dijkstra(adjacency_map, "A") \cup dijkstra(adjacency_map, "D") :
                    total_distance(dj.distances) = 6 * w
              /\ \A dj \in dijkstra(adjacency_map, "B") \cup dijkstra(adjacency_map, "C") :
                    total_distance(dj.distances) = 4 * w
        /\ best_source_mer \in {"B", "C"}

\* The interactions between residues i and j
InteractionsOfPair(ms, inter, i, j) ==
    {k \in 1..Len(inter) : {inter[k].from_mer, inter[k].to_mer} = {ms[i].name, ms[j].name}}

\* C4: calculate_interactions returns exactly one Interaction for every
\* unordered pair of distinct residues with an atom pair closer than 4.5, and
\* none for any other pair; every pair with a bond count has an Interaction.
C4_OneInteractionPerBondedPair ==
    AfterInteractions =>
        \A i, j \in 1..Len(mers) :
            i < j =>
                /\ Cardinality(InteractionsOfPair(mers, interactions, i, j))
                      = IF WithinBondingDistance(mers[i], mers[j]) THEN 1 ELSE 0
                /\ BondCount(mers, i, j) > 0
                      => InteractionsOfPair(mers, interactions, i, j) # {}

\* C5: after one run of calculate_interactions, for every bonded pair A, B the
\* count A holds for B equals the count B holds for A, and it is the one
\* increment of the pair.
C5_SingleSymmetricIncrement ==
    AfterInteractions =>
        \A i, j \in 1..Len(mers) :
            (i # j /\ WithinBondingDistance(mers[i], mers[j])) =>
                /\ BondCount(mers, i, j) = BondCount(mers, j, i)
                /\ BondCount(mers, i, j) = 1

\* C6: for a symmetric adjacency map with positive weights and a source in it,
\* dijkstra returns for every node the least path weight from the source, and
\* infinity exactly for the nodes no path reaches.
C6_DijkstraIsShortestPath ==
    result.kind = "dijkstra" =>
        /\ DOMAIN result.distances = Keys(adjacency_map)
        /\ \A t \in Keys(adjacency_map) :
              result.distances[t] = RefDist(adjacency_map, result.source_mer, t)

\* A neighbour of the source is nearer through a third node than directly
C6_Witness ==
    /\ result.kind = "dijkstra"
    /\ \E t \in DOMAIN adjacency_map.nbrs[result.source_mer] :
          result.distances[t] < adjacency_map.nbrs[result.source_mer][t]

\* C7: find_best_source_mer returns a node whose sum of finite shortest-path
\* distances is at most that of every other node of the map, by the
\* all-pairs reference.
C7_BestSourceIsOptimal ==
    result.kind = "find_best_source_mer" =>
        /\ best_source_mer \in Keys(adjacency_map)
        /\ \A m \in Keys(adjacency_map) :
              RefTotal(adjacency_map, best_source_mer) <= RefTotal(adjacency_map, m)

\* The best source is not the first key and an earlier key has a larger sum
C7_Witness ==
    /\ result.kind = "find_best_source_mer"
    /\ best_source_mer \in Keys(adjacency_map)
    /\ best_source_mer # adjacency_map.order[1]
    /\ RefTotal(adjacency_map, adjacency_map.order[1])
          > RefTotal(adjacency_map, best_source_mer)

\* C8: for the best source and every reachable target, the sum of the
\* Interaction weights along the reconstructed path that process_pdb_file
\* stores equals the distance dijkstra computed for the target.
C8_PathSumsEqualDistances ==
    result.kind = "total_weight_sums" =>
        /\ ~IsRaise(result.sums)
        /\ \A t \in Keys(adjacency_map) :
              (t # best_source_mer /\ ~IsInf(result.distances[t]))
                  => result.sums.value[t] = result.distances[t]

\* b can be reached from a along the entries of adj
Reaches(adj, a, b) ==
    a \in Keys(adj) /\ b \in Keys(adj) /\ ~IsInf(RefDist(adj, a, b))

\* The residue keys in what a run returned
OutputKeys(r) ==
    MerNames(r.mers) \cup DOMAIN r.total_weight_sums
    \cup UNION {{r.interactions[k].from_mer, r.interactions[k].to_mer} :
                  k \in 1..Len(r.interactions)}

HasBondedPair(ms) == \E i \in 1..Len(ms) : BondedTo(ms, i) # {}

\* C9: a run on a structure with bonded residues ends with outputs in which
\* every residue key is reachable through adjacency edges from every other
\* key: no key of a discarded component is in the adjacency map, the residue
\* map, the interaction list or the distance map.
C9_OutputsAreOneComponent ==
    (pc = "done" /\ HasBondedPair(mers)) =>
        /\ result.kind = "return"
        /\ \A a, b \in Keys(adjacency_map) \cup OutputKeys(result) :
              Reaches(adjacency_map, a, b)

\* C10: a run on a structure whose interaction graph has more than one
\* component returns only the residues of a largest component and a true
\* fragments flag; on a connected graph it returns all its residues and a
\* false flag.
C10_LargestComponentAndFlag ==
    (pc = "done" /\ HasBondedPair(mers)) =>
        /\ result.kind = "return"
        /\ "fragments_discarded" \in DOMAIN result
        /\ LET comps == Components(mers)
           IN IF Cardinality(comps) > 1
              THEN /\ result.fragments_discarded = TRUE
                   /\ \E c \in comps :
                         /\ \A d \in comps : Cardinality(d) <= Cardinality(c)
                         /\ MerNames(result.mers) = {mers[i].name : i \in c}
              ELSE /\ result.fragments_discarded = FALSE
                   /\ \E c \in comps : MerNames(result.mers) = {mers[i].name : i \in c}

----------------------------------------------------------------------------
(* Properties of generate_enhanced_pdb *)

AtomRecords(text) == SelectSeq(text, IsAtomLine)
IsOtherLine(line) == ~IsAtomLine(line)
IsInserted(line) == "inserted" \in DOMAIN line
IsOriginal(line) == ~IsInserted(line)

\* The annotation column of a width-6 field holding h hundredths
Annotation(h) == [text |-> "number", hundredths |-> h, width |-> FieldWidth]

\* C11: for a valid source key, the atom-record lines of the text
\* generate_enhanced_pdb returns are the atom-record lines of the input file,
\* each once and in the original order (same record name, serial number and
\* residue), so there are as many of them as in the input.
C11_AtomLinesKept ==
    (pc = "generated" /\ result.source_mer \in MerNames(mers)) =>
        LET out == AtomRecords(result.text)
            inp == AtomRecords(file)
        IN /\ Len(out) = Len(inp)
           /\ \A k \in 1..Len(inp) :
                 /\ out[k].rec = inp[k].rec
                 /\ out[k].atom_id = inp[k].atom_id
                 /\ out[k].mer_name = inp[k].mer_name

\* C12: the text generate_enhanced_pdb returns has exactly one inserted line,
\* a remark naming the source residue, placed right before the first atom
\* record, and its other non-atom lines are the non-atom lines of the input,
\* those after the last atom record included, unchanged and in order.
C12_OneRemarkAndPassThrough ==
    pc = "generated" =>
        LET out == result.text
            ins == {k \in 1..Len(out) : IsInserted(out[k])}
        IN /\ Cardinality(ins) = 1
           /\ \A k \in ins :
                 /\ out[k].rec = "REMARK"
                 /\ "source_mer" \in DOMAIN out[k]
                 /\ out[k].source_mer = result.source_mer
                 /\ \A j \in 1..(k - 1) : ~IsAtomLine(out[j])
                 /\ AtomRecords(file) # <<>> => (k < Len(out) /\ IsAtomLine(out[k + 1]))
           /\ SelectSeq(SelectSeq(out, IsOtherLine), IsOriginal)
                 = SelectSeq(file, IsOtherLine)

\* C13: in the text generate_enhanced_pdb returns, the annotation column of
\* an atom line holds the distance of its residue with 2 decimals, at most
\* 999.99, in 6 characters, when the distance map has a finite distance for
\* the residue; otherwise it holds the annotation an input line of that
\* residue had.
C13_AnnotationColumn ==
    pc = "generated" =>
        \A k \in 1..Len(result.text) :
            IsAtomLine(result.text[k]) =>
                LET line == result.text[k]
                    mer == line.mer_name
                IN IF mer \in DOMAIN result.weights /\ ~IsInf(result.weights[mer])
                   THEN LET h == format_6_2f(result.weights[mer]).hundredths
                        IN line.temp_factor
                              = Annotation(IF h > 99999 THEN 99999 ELSE h)
                   ELSE \E j \in 1..Len(file) :
                           /\ IsAtomLine(file[j])
                           /\ file[j].mer_name = mer
                           /\ line.temp_factor = Annotation(file[j].temp_factor)

\* C14: a call of generate_enhanced_pdb leaves the distance map, the file and
\* the residue map with its atoms, bond counts, centroids and annotation
\* values as they were; a repeated call for the same source returns the same
\* text, and the text for a source is the one a first call on the freshly
\* parsed residue map returns, whatever sources were asked for before.
C14_NoSharedStateMutated ==
    [][pc' = "generated" =>
          /\ mers' = mers
          /\ file' = file
          /\ result'.weights = result.weights
          /\ (pc = "generated" /\ result'.source_mer = result.source_mer)
                => result'.text = result.text
          /\ result'.text = generate_enhanced_pdb(result.weights, result'.source_mer,
                                                  file, parse_atoms(file),
                                                  result.key_order)]_vars

\* A second call was made, for a distance map with a key of a residue that
\* has atoms
C14_Witness ==
    /\ pc = "generated"
    /\ result.calls >= 2
    /\ \E i \in 1..Len(mers) :
          mers[i].name \in DOMAIN result.weights /\ Len(mers[i].atoms) > 0

----------------------------------------------------------------------------
(* Properties of parse_atoms *)

\* An atom line of at least 66 characters whose numeric fields convert
WellFormed(line) ==
    /\ IsAtomLine(line)
    /\ LineLen(line) >= MinLineLength
    /\ line.bad \cap NumericFields = {}

\* The atoms of a residue map, as pairs of the residue index and the atom
AtomsOf(ms) == UNION {{<<k, j>> : j \in 1..Len(ms[k].atoms)} : k \in 1..Len(ms)}

Parsed == pc \in {"parsed", "parsed_again"}

\* C15: parse_atoms returns a residue map for any lines; an ATOM/HETATM line
\* shorter than 66 characters or with a serial, residue number, coordinate or
\* annotation that does not convert contributes no atom, and every
\* well-formed atom line contributes its atom.
C15_MalformedLinesSkipped ==
    Parsed =>
        /\ \A i \in 1..Len(raw_lines) :
              WellFormed(raw_lines[i])
                 <=> \E a \in AtomsOf(mers) : mers[a[1]].atoms[a[2]].atom_id = i
        /\ Cardinality(AtomsOf(mers))
              = Cardinality({i \in 1..Len(raw_lines) : WellFormed(raw_lines[i])})

\* A malformed atom line came before a well-formed one, which has its atom
C15_Witness ==
    /\ Parsed
    /\ \E i, j \in 1..Len(raw_lines) :
          /\ i < j
          /\ IsAtomLine(raw_lines[i]) /\ ~WellFormed(raw_lines[i])
          /\ WellFormed(raw_lines[j])
          /\ \E a \in AtomsOf(mers) : mers[a[1]].atoms[a[2]].atom_id = j

\* C16: after parse_atoms, each well-formed ATOM/HETATM line has exactly one
\* atom, in the residue whose key is the key of the line, the keys of the
\* residue map are distinct, every atom comes from a well-formed atom line,
\* and each atom's owner is the Mer object stored in the map.
C16_AtomsGroupedByKey ==
    Parsed =>
        /\ \A i \in 1..Len(raw_lines) :
              WellFormed(raw_lines[i]) =>
                 /\ Cardinality({a \in AtomsOf(mers) :
                                    mers[a[1]].atoms[a[2]].atom_id = i}) = 1
                 /\ \A a \in AtomsOf(mers) :
                       mers[a[1]].atoms[a[2]].atom_id = i
                          => mers[a[1]].name = raw_lines[i].mer_name
        /\ \A k, l \in 1..Len(mers) : mers[k].name = mers[l].name => k = l
        /\ \A a \in AtomsOf(mers) :
              /\ WellFormed(raw_lines[mers[a[1]].atoms[a[2]].atom_id])
              /\ mers[a[1]].atoms[a[2]].mer = MerRef(mers[a[1]])

\* Two well-formed lines of one key were parsed
C16_Witness ==
    /\ Parsed
    /\ \E i, j \in 1..Len(raw_lines) :
          /\ i < j
          /\ WellFormed(raw_lines[i]) /\ WellFormed(raw_lines[j])
          /\ raw_lines[i].mer_name = raw_lines[j].mer_name
    /\ \E k \in 1..Len(mers) : Len(mers[k].atoms) >= 2

----------------------------------------------------------------------------
(* Properties of process_pdb_file and its callers *)

\* What process_pdb_file returns or raises for the file at path
process_pdb_file(path) ==
    LET r == calculate_interactions(parse_atoms(path))
        adj == build_adjacency_map(r.mers)
    IN UNION {process_rest(path, r.mers, r.interactions, adj, best) :
                best \in find_best_source_mer(r.mers, adj)}

\* A file of one residue of one atom: residues, but no bonded pair
LoneFile == FileOf(1, <<0>>, <<1>>)

\* C18: a run on a file that parses to zero residues ends without an
\* exception, with an outcome that no run on a structure with residues and
\* no bonded pair ends with.
C18_EmptyIsDistinguished ==
    (pc = "done" /\ mers = <<>>) =>
        /\ ~IsRaise(result)
        /\ result \notin process_pdb_file(LoneFile)

\* C19: what process_pdb_file returns has six fields: the best source key,
\* the residue map, the distance map of the best source, the interaction
\* list, the distance maps of all sources and a boolean flag; the worker's
\* 'interactions' is the interaction list and its 'all_distance_sums' maps
\* every source to a distance map of that source.
C19_ResultOrderAndWorkerBinding ==
    /\ (pc = "done" /\ HasBondedPair(mers)) =>
          /\ result.kind = "return"
          /\ Len(result.value) = 6
          /\ result.value[1] = best_source_mer
          /\ result.value[2] = mers
          /\ result.value[4] = interactions
          /\ \A s \in Keys(adjacency_map) :
                result.value[5][s] \in {dj.distances : dj \in dijkstra(adjacency_map, s)}
          /\ result.value[3] = result.value[5][best_source_mer]
          /\ result.value[6] \in BOOLEAN
    /\ (pc = "emitted" /\ HasBondedPair(mers)) =>
          /\ result.kind = "finished"
          /\ result.interactions = interactions
          /\ \A s \in Keys(adjacency_map) :
                result.all_distance_sums[s]
                   \in {dj.distances : dj \in dijkstra(adjacency_map, s)}

\* C20: build_adjacency_map skips a bond-count entry exactly when the
\* residue it names is not in the residue map: an entry naming a residue of
\* the map gives an edge between the two residues, and an entry naming no
\* residue of the map gives none.
C20_SkippedIffAbsent ==
    pc = "adjacency" =>
        \A i \in 1..Len(mers) : \A key \in DOMAIN mers[i].bond_count :
            IF key.name \in MerNames(mers)
            THEN /\ mers[i].name \in DOMAIN adjacency_map.nbrs
                 /\ key.name \in DOMAIN adjacency_map.nbrs[mers[i].name]
            ELSE key.name \notin DOMAIN adjacency_map.nbrs

\* C21: self-pairs are never considered: after calculate_interactions no
\* residue holds a bond count for itself and no Interaction has the same
\* residue as both ends, and after build_adjacency_map no node is its own
\* neighbour.
C21_NoSelfPairs ==
    /\ pc \in {"interacted", "built", "built_by_name", "made"} =>
          /\ \A i \in 1..Len(mers) :
                \A key \in DOMAIN mers[i].bond_count : key.name # mers[i].name
          /\ \A k \in 1..Len(interactions) :
                interactions[k].from_mer # interactions[k].to_mer
    /\ pc \in {"built", "built_by_name", "made"} =>
          \A m \in Keys(adjacency_map) : m \notin DOMAIN adjacency_map.nbrs[m]

\* Bonds were counted, an Interaction was built and edges were written
C21_Witness ==
    /\ pc = "built_by_name"
    /\ HasBondedPair(mers)
    /\ interactions # <<>>
    /\ Keys(adjacency_map) # {}

\* C27: every weight build_adjacency_map writes is a positive finite number
\* and no division by zero occurs: a residue that holds or receives a
\* positive bond count after calculate_interactions has at least one atom,
\* and an Interaction made of a residue without atoms is made with 1 in the
\* place of the zero size.
C27_WeightsPositiveNoZeroDivision ==
    /\ pc \in {"interacted", "built", "built_by_name", "made"} =>
          /\ \A i, j \in 1..Len(mers) :
                BondCount(mers, i, j) > 0 => Size(mers, i) >= 1 /\ Size(mers, j) >= 1
          /\ \A k \in 1..Len(interactions) :
                "affinity" \in DOMAIN interactions[k] /\ interactions[k].affinity > 0
    /\ pc \in {"built", "built_by_name", "made"} =>
          \A m \in Keys(adjacency_map) :
             \A n \in DOMAIN adjacency_map.nbrs[m] :
                ~IsInf(adjacency_map.nbrs[m][n]) /\ adjacency_map.nbrs[m][n] > 0
    /\ pc = "made" =>
          /\ ~IsRaise(result.made)
          /\ result.made.affinity =
                Affinity(BondCount(mers, result.from, result.to),
                         IF Size(mers, result.from) = 0 THEN 1
                         ELSE Size(mers, result.from),
                         IF Size(mers, result.to) = 0 THEN 1
                         ELSE Size(mers, result.to))

\* Weights were written for bonded residues and an Interaction was made of
\* a residue without atoms
C27_Witness ==
    /\ pc = "made"
    /\ Size(mers, result.from) = 0
    /\ \E m \in Keys(adjacency_map) : DOMAIN adjacency_map.nbrs[m] # {}

\* C22: in the distance map dijkstra returns, the distance of the source is
\* 0; for a graph of one node the map holds that entry and no other.
C22_SourceDistanceZero ==
    result.kind = "dijkstra" =>
        /\ result.source_mer \in DOMAIN result.distances
        /\ result.distances[result.source_mer] = 0
        /\ Cardinality(Keys(adjacency_map)) = 1 =>
              DOMAIN result.distances = {result.source_mer}

\* dijkstra was called on a graph of one node
C22_Witness ==
    /\ result.kind = "dijkstra"
    /\ Keys(adjacency_map) = {result.source_mer}
    /\ result.distances[result.source_mer] = 0

\* C23: in every distance map dijkstra returns for a source X, for every
\* edge (Z, Y) of the map, dist(X, Y) <= dist(X, Z) + weight(Z, Y).
C23_TriangleInequality ==
    result.kind = "dijkstra" =>
        \A z \in Keys(adjacency_map) :
           \A y \in DOMAIN adjacency_map.nbrs[z] :
              ~Lt(Plus(result.distances[z], adjacency_map.nbrs[z][y]),
                  result.distances[y])

\* One edge away from the source is tight and another edge is not
C23_Witness ==
    /\ result.kind = "dijkstra"
    /\ \E z \in Keys(adjacency_map) \ {result.source_mer} :
          \E y \in DOMAIN adjacency_map.nbrs[z] :
             result.distances[y] = result.distances[z] + adjacency_map.nbrs[z][y]
    /\ \E z \in Keys(adjacency_map) :
          \E y \in DOMAIN adjacency_map.nbrs[z] :
             /\ ~IsInf(result.distances[z])
             /\ result.distances[y] < result.distances[z] + adjacency_map.nbrs[z][y]

\* C26: when several nodes attain the least total of finite distances,
\* find_best_source_mer returns the one that comes first in the key order of
\* the adjacency map; the map and its key order determine the result.
C26_FirstOfTiesIsReturned ==
    result.kind = "find_best_source_mer" =>
        /\ find_best_source_mer(mers, adjacency_map) = {best_source_mer}
        /\ \E i \in 1..Len(adjacency_map.order) :
              /\ adjacency_map.order[i] = best_source_mer
              /\ \A j \in 1..Len(adjacency_map.order) :
                    /\ RefTotal(adjacency_map, adjacency_map.order[i])
                          <= RefTotal(adjacency_map, adjacency_map.order[j])
                    /\ j < i => RefTotal(adjacency_map, adjacency_map.order[i])
                                   < RefTotal(adjacency_map, adjacency_map.order[j])

\* A later key has the same total as the returned one, with an edge in the map
C26_Witness ==
    /\ result.kind = "find_best_source_mer"
    /\ best_source_mer \in Keys(adjacency_map)
    /\ RefTotal(adjacency_map, best_source_mer) > 0
    /\ \E m \in Keys(adjacency_map) \ {best_source_mer} :
          RefTotal(adjacency_map, m) = RefTotal(adjacency_map, best_source_mer)

\* The chain of predecessors from current ends within fuel steps
RECURSIVE ChainEnds(_, _, _)
ChainEnds(predecessors, current, fuel) ==
    IF current = None THEN TRUE
    ELSE IF fuel = 0 THEN FALSE
    ELSE ChainEnds(predecessors, predecessors[current], fuel - 1)

\* C28: for the predecessor map dijkstra returns for source S,
\* reconstruct_path terminates for every target T, the chain of predecessors
\* having no cycle; for a reachable T the path starts at S, ends at T and
\* every consecutive pair is an edge of the adjacency map; for an unreachable
\* T the path is [T].
C28_ReconstructedPaths ==
    result.kind = "reconstruct_path" =>
        \A t \in Keys(adjacency_map) :
           LET path == result.paths[t]
           IN /\ ChainEnds(result.predecessors, t, Cardinality(Keys(adjacency_map)))
              /\ Len(path) <= Cardinality(Keys(adjacency_map))
              /\ IF IsInf(RefDist(adjacency_map, result.source_mer, t))
                 THEN path = <<t>>
                 ELSE /\ path[1] = result.source_mer
                      /\ path[Len(path)] = t
                      /\ \A k \in 1..(Len(path) - 1) :
                            path[k + 1] \in DOMAIN adjacency_map.nbrs[path[k]]

\* A path through a third node was reconstructed
C28_Witness ==
    /\ result.kind = "reconstruct_path"
    /\ \E t \in Keys(adjacency_map) : Len(result.paths[t]) = 3

\* C24: every Interaction carries a weight equal to 1/affinity, affinity =
\* bond_count / sqrt(atomsA * atomsB), infinite when the bond count is 0, and
\* for each Interaction this weight is the weight the adjacency map holds for
\* the same pair of residues.
C24_InteractionCarriesWeight ==
    /\ pc \in {"interacted", "built", "built_by_name", "made"} =>
          \A k \in 1..Len(interactions) :
             /\ "weight" \in DOMAIN interactions[k]
             /\ interactions[k].weight =
                   (IF interactions[k].affinity = 0 THEN Inf
                    ELSE 3600 \div interactions[k].affinity)
    /\ pc \in {"built_by_name", "made"} =>
          \A k \in 1..Len(interactions) :
             /\ interactions[k].from_mer \in Keys(adjacency_map)
             /\ interactions[k].to_mer
                   \in DOMAIN adjacency_map.nbrs[interactions[k].from_mer]
             /\ adjacency_map.nbrs[interactions[k].from_mer][interactions[k].to_mer]
                   = interactions[k].weight

C29_NoEmptyNoDanglingKeys ==
    pc = "adjacency" =>
        /\ DOMAIN adjacency_map.nbrs = Keys(adjacency_map)
        /\ \A m \in Keys(adjacency_map) :
              /\ DOMAIN adjacency_map.nbrs[m] # {}
              /\ DOMAIN adjacency_map.nbrs[m] \subseteq Keys(adjacency_map)
        /\ \A source_mer \in Keys(adjacency_map) :
              \A dj \in dijkstra(adjacency_map, source_mer) :
                 DOMAIN dj.distances = Keys(adjacency_map)

\* A residue without edges was left out of a map that has edges, and a bond
\* entry names a residue that is not in the residue map
C29_Witness ==
    /\ pc = "adjacency"
    /\ Keys(adjacency_map) # {}
    /\ MerNames(mers) \ Keys(adjacency_map) # {}
    /\ \E i \in 1..Len(mers) : \E key \in DOMAIN mers[i].bond_count :
          key.kind = "str" /\ key.name \notin MerNames(mers)

\* The workers of the page whose signal has not been handled
Unhandled == {k \in 1..Len(page.workers) : page.workers[k].status # "handled"}

\* A step in which the page handles the signal of a worker
HandlerStep == \E k \in Unhandled : page'.workers[k].status = "handled"

\* C30: on the file-upload page every started run ends with exactly one of
\* the signals 'finished' and 'error' of its worker; Select and Process are
\* disabled from the start of a run until its signal is handled, and enabled
\* again by the handler of either signal, so no two workers of the page run
\* at the same time.
C30_OneSignalOneWorker ==
    /\ [](/\ Cardinality(Unhandled) <= 1
          /\ Unhandled # {} => ~page.select_btn /\ ~page.process_btn
          /\ \A k \in 1..Len(page.workers) :
                IF page.workers[k].status = "running"
                THEN page.workers[k].signals = <<>>
                ELSE /\ Len(page.workers[k].signals) = 1
                     /\ page.workers[k].signals[1].kind \in {"finished", "error"})
    /\ [][HandlerStep => page'.select_btn /\ page'.process_btn]_vars
    /\ \A k \in 1..MaxCalls :
          (k \in Unhandled) ~> (k <= Len(page.workers) /\ k \notin Unhandled)

\* One run has ended with 'finished', one with 'error', and a third is
\* running with both buttons disabled
C30_Witness ==
    /\ Len(page.workers) = 3
    /\ page.workers[1].status = "handled"
    /\ page.workers[2].status = "handled"
    /\ page.workers[1].signals[1].kind # page.workers[2].signals[1].kind
    /\ page.workers[3].status = "running"
    /\ ~page.select_btn /\ ~page.process_btn

====
